---------------------------- MODULE Spec2Model ----------------------------
(***************************************************************************)
(* A model of react-credit-card-input (src/src/CardInput/index.js):        *)
(*   - getPatternFromNumber, the pattern selector,                         *)
(*   - formatNumber, the formatter with its cursor bookkeeping,            *)
(*   - the CardInput component's key-down / change handlers (edit guard).  *)
(*                                                                         *)
(* A JavaScript string is modelled as a sequence of one-character strings, *)
(* and JavaScript's 0-based index k is the sequence's index k + 1.         *)
(* An optional value (a parameter left out, a ref holding null) is the     *)
(* empty sequence when absent and a one-element sequence when present.     *)
(***************************************************************************)
EXTENDS Integers, Sequences, FiniteSets

Min(a, b) == IF a < b THEN a ELSE b

Max(a, b) == IF a < b THEN b ELSE a

(***************************************************************************)
(* Strings                                                                 *)
(***************************************************************************)

\* The value `undefined`, as distinct from every string.
Undefined == <<"undefined">>

\* '' + value : string coercion; undefined becomes the text "undefined".
Coerce(value) ==
    IF value = Undefined
    THEN <<"u", "n", "d", "e", "f", "i", "n", "e", "d">>
    ELSE value

\* "0123456789".indexOf(value) !== -1, for a one-character value.
isNumber(value) ==
    value \in {"0", "1", "2", "3", "4", "5", "6", "7", "8", "9"}

\* The regular expression /\d/ tested on a string.
HasDigit(s) == \E k \in 1..Len(s) : isNumber(s[k])

\* A faulty variant of HasBadCharacter: the expression is anchored, /^[^0-9 ]/.
HasBadCharacterFirst(s) == Len(s) > 0 /\ ~isNumber(s[1]) /\ s[1] # " "

\* The regular expression /[^0-9 ]/ tested on a string.
HasBadCharacter(s) == \E k \in 1..Len(s) : ~isNumber(s[k]) /\ s[k] # " "

\* String.prototype.substring(a, b) for 0 <= a <= b <= length.
Substring(s, a, b) == SubSeq(s, a + 1, b)

\* s[k] in JavaScript: the character at 0-based k, or undefined (here the
\* text "undefined", which equals no character) outside the string.
CharAt(s, k) == IF k >= 0 /\ k < Len(s) THEN s[k + 1] ELSE "undefined"

(***************************************************************************)
(* getPatternFromNumber                                                    *)
(***************************************************************************)

Pattern19 ==
    << "#", "#", "#", "#", "#", "#", "#", "#", "#", "#",
       "#", "#", "#", "#", "#", "#", "#", "#", "#" >>

Pattern16 ==
    << "#", "#", "#", "#", " ", "#", "#", "#", "#", " ",
       "#", "#", "#", "#", " ", "#", "#", "#", "#" >>

PatternAmex ==
    << "#", "#", "#", "#", " ", "#", "#", "#", "#", "#", "#", " ",
       "#", "#", "#", "#", "#" >>

PatternVisa ==
    << "#", "#", "#", "#", " ", "#", "#", "#", "#", " ",
       "#", "#", "#", "#", " ", "#", "#", "#", "#", " ", "#", "#", "#" >>

\* A faulty variant of the table: the '3' row holds the 16-digit pattern.
patternsAmexAs16(key) ==
    CASE key = "0" -> Pattern19
      [] key = "2" -> Pattern16
      [] key = "3" -> Pattern16
      [] key = "4" -> PatternVisa
      [] key = "5" -> Pattern16
      [] key = "6" -> Pattern16
      [] OTHER -> << >>

\* The object `patterns`, looked up by key; a key it does not hold yields
\* undefined, which is falsy like the empty string modelling it.
patterns(key) ==
    CASE key = "0" -> Pattern19
      [] key = "2" -> Pattern16
      [] key = "3" -> PatternAmex
      [] key = "4" -> PatternVisa
      [] key = "5" -> Pattern16
      [] key = "6" -> Pattern16
      [] OTHER -> << >>

getPatternFromNumber(number) ==
    LET str == Coerce(number)
        firstDigit == IF Len(str) > 0 THEN str[1] ELSE "0"
    IN  IF patterns(firstDigit) # << >>
        THEN patterns(firstDigit)
        ELSE patterns("0")

(***************************************************************************)
(* formatNumber                                                            *)
(***************************************************************************)

\* A faulty variant of DefaultSelectionStart: the caret defaults to the start.
DefaultSelectionStartZero(value) ==
    IF value # Undefined THEN Min(0, Len(Coerce(value))) ELSE 0

\* The default of the parameter selectionStart.
DefaultSelectionStart(value) ==
    IF value # Undefined THEN Len(Coerce(value)) ELSE 0

\* The parameters after their defaults are applied: request.selectionStart
\* and request.selectionEnd are optional.
ResolvedStart(request) ==
    IF request.selectionStart # << >>
    THEN request.selectionStart[1]
    ELSE DefaultSelectionStart(request.value)

ResolvedEnd(request) ==
    IF request.selectionEnd # << >>
    THEN request.selectionEnd[1]
    ELSE ResolvedStart(request)

\* A faulty variant of processNumber: every character is written to the output.
processNumberKeepsAll(inCharacter) ==
    [ outCharacter |-> inCharacter,
      addToOutput  |-> TRUE,
      shiftInput   |-> TRUE ]

\* A faulty variant of processNumber: a character that is not a digit is not
\* consumed.
processNumberStalls(inCharacter) ==
    [ outCharacter |-> inCharacter,
      addToOutput  |-> isNumber(inCharacter),
      shiftInput   |-> isNumber(inCharacter) ]

processNumber(inCharacter) ==
    [ outCharacter |-> inCharacter,
      addToOutput  |-> isNumber(inCharacter),
      shiftInput   |-> TRUE ]

\* A faulty variant of processSpace: the input always moves on, also past a digit.
processSpaceSwallows(inCharacter) ==
    [ outCharacter |-> " ",
      addToOutput  |-> TRUE,
      shiftInput   |-> TRUE ]

processSpace(inCharacter) ==
    [ outCharacter |-> " ",
      addToOutput  |-> TRUE,
      shiftInput   |-> ~isNumber(inCharacter) ]

\* outputNumber[j] = outCharacter on a JavaScript array (0-based j).
SetAt(array, index, element) ==
    [ k \in 1..Max(Len(array), index + 1) |->
        IF k = index + 1 THEN element ELSE array[k] ]

\* The locals of formatNumber before the loop.
LoopStart(request) ==
    [ outputNumber |-> << >>,
      currentStart |-> ResolvedStart(request),
      currentEnd   |-> ResolvedEnd(request),
      i |-> 0,
      j |-> 0 ]

\* The loop's condition.
LoopCondition(inputNumber, pattern, st) ==
    st.i < Len(inputNumber) /\ st.j < Len(pattern)

\* A faulty variant of ShiftStart: the start also moves when i equals it.
ShiftStartInclusive(i, currentStart) ==
    IF i <= currentStart THEN currentStart + 1 ELSE currentStart

\* if (i < currentStart) currentStart++
ShiftStart(i, currentStart) ==
    IF i < currentStart THEN currentStart + 1 ELSE currentStart

\* A faulty variant of ShiftEnd: the end also moves when i equals it.
ShiftEndInclusive(i, currentEnd) ==
    IF i <= currentEnd THEN currentEnd + 1 ELSE currentEnd

\* if (i < currentEnd) currentEnd++
ShiftEnd(i, currentEnd) ==
    IF i < currentEnd THEN currentEnd + 1 ELSE currentEnd

\* One iteration of the while loop on the locals st.
LoopBody(inputNumber, pattern, st) ==
    LET inCharacter    == inputNumber[st.i + 1]
        currentPattern == pattern[st.j + 1]
        p == IF currentPattern = "#"
             THEN processNumber(inCharacter)
             ELSE processSpace(inCharacter)
    IN  [ outputNumber |-> IF p.addToOutput
                           THEN SetAt(st.outputNumber, st.j, p.outCharacter)
                           ELSE st.outputNumber,
          j |-> IF p.addToOutput THEN st.j + 1 ELSE st.j,
          i |-> IF p.shiftInput THEN st.i + 1 ELSE st.i,
          currentStart |-> IF p.shiftInput
                           THEN st.currentStart
                           ELSE ShiftStart(st.i, st.currentStart),
          currentEnd   |-> IF p.shiftInput
                           THEN st.currentEnd
                           ELSE ShiftEnd(st.i, st.currentEnd) ]

RECURSIVE RunLoop(_, _, _)
RunLoop(inputNumber, pattern, st) ==
    IF LoopCondition(inputNumber, pattern, st)
    THEN RunLoop(inputNumber, pattern, LoopBody(inputNumber, pattern, st))
    ELSE st

\* The object formatNumber returns.
FormatResult(st) ==
    [ value          |-> st.outputNumber,
      selectionStart |-> st.currentStart,
      selectionEnd   |-> st.currentEnd ]

formatNumber(request) ==
    LET inputNumber == Coerce(request.value)
        pattern     == getPatternFromNumber(inputNumber)
    IN  FormatResult(RunLoop(inputNumber, pattern, LoopStart(request)))

\* formatNumber({value}) : a call with the value alone.
FormatValue(value) ==
    formatNumber([ value |-> value, selectionStart |-> << >>,
                   selectionEnd |-> << >> ])

(***************************************************************************)
(* CardInput: the handlers                                                 *)
(***************************************************************************)

\* The object getReversionData stores in reversionData.current, from the
\* input element (value, selectionStart, selectionEnd) and the key pressed.
getReversionData(target, key) ==
    [ selectionStart |-> target.selectionStart,
      selectionEnd   |-> target.selectionEnd,
      value          |-> target.value,
      isReplacing    |-> HasDigit(Substring(target.value,
                                            target.selectionStart,
                                            target.selectionEnd)),
      isAddingSpace  |-> key = " " ]

\* What a call of manageChange does to the component: the state it sets,
\* the branch it ends in, and the value it hands to onChange, if any.
Outcome(state, branch, notified) ==
    [ inputState |-> state, outcome |-> branch, onChange |-> notified ]

\* revertState(e, originalInputData), entered with the state inputState.
\* Its second parameter is destructured: null there is a TypeError, which
\* leaves the state as it was.
revertState(inputState, originalInputData) ==
    IF originalInputData = << >>
    THEN Outcome(inputState, "threw", << >>)
    ELSE Outcome([ value          |-> originalInputData[1].value,
                   selectionStart |-> originalInputData[1].selectionStart,
                   selectionEnd   |-> originalInputData[1].selectionEnd ],
                 "reverted", << >>)

\* The condition of the full-field rule.
IsFullField(original, value, cardPattern) ==
    /\ Len(original.value) = Len(cardPattern)
    /\ Len(value) >= Len(cardPattern)
    /\ ~original.isReplacing

\* A faulty variant of IsStraySpace: the comparison is inverted.
IsStraySpaceInverted(original, cardPattern) ==
    original.isAddingSpace /\ CharAt(cardPattern, original.selectionStart) = " "

\* The condition of the space rule.
IsStraySpace(original, cardPattern) ==
    original.isAddingSpace /\ CharAt(cardPattern, original.selectionStart) # " "

\* A faulty variant of Notification: onChange is called on every accepted edit.
NotificationAlways(inputState, formattedData) == <<formattedData.value>>

\* if (inputState.value !== formattedData.value) { e.target.value =
\* formattedData.value; onChange(e) } : the value onChange receives, if any.
Notification(inputState, formattedData) ==
    IF inputState.value # formattedData.value
    THEN <<formattedData.value>>
    ELSE << >>

\* manageChange(e) with e.target = target, entered with the state
\* inputState and the ref reversionData.current = originalInputData.
manageChange(target, inputState, originalInputData) ==
    LET value       == target.value
        cardPattern == getPatternFromNumber(value)
    IN  IF HasBadCharacter(value)
        THEN revertState(inputState, originalInputData)
        ELSE IF originalInputData = << >>
        THEN \* originalInputData.value of null: a TypeError
             Outcome(inputState, "threw", << >>)
        ELSE IF IsFullField(originalInputData[1], value, cardPattern)
        THEN revertState(inputState, originalInputData)
        ELSE IF IsStraySpace(originalInputData[1], cardPattern)
        THEN revertState(inputState, originalInputData)
        ELSE LET formattedData ==
                     formatNumber([ value          |-> target.value,
                                    selectionStart |-> <<target.selectionStart>>,
                                    selectionEnd   |-> <<target.selectionEnd>> ])
             IN  Outcome(formattedData, "accepted",
                         Notification(inputState, formattedData))

(***************************************************************************)
(* The browser: what an edit does to the input element                     *)
(***************************************************************************)

\* Text inserted over the selection; the caret ends behind the text.
InsertText(value, selectionStart, selectionEnd, text) ==
    [ value          |-> Substring(value, 0, selectionStart) \o text
                         \o Substring(value, selectionEnd, Len(value)),
      selectionStart |-> selectionStart + Len(text),
      selectionEnd   |-> selectionStart + Len(text) ]

\* Backspace: the selection is deleted, or the character before the caret.
Backspace(value, selectionStart, selectionEnd) ==
    IF selectionStart < selectionEnd
    THEN InsertText(value, selectionStart, selectionEnd, << >>)
    ELSE IF selectionStart > 0
    THEN InsertText(value, selectionStart - 1, selectionStart, << >>)
    ELSE [ value |-> value, selectionStart |-> 0, selectionEnd |-> 0 ]

\* The input element after the default action of a key pressed with the
\* selection (selectionStart, selectionEnd): a character key types itself,
\* "v" stands for the paste shortcut with `clipboard` on the clipboard, and
\* any other key ("Shift") edits nothing.
DefaultAction(value, selectionStart, selectionEnd, key, clipboard) ==
    CASE key \in {"0", "1", "2", "3", "4", "5", "6", "7", "8", "9", " ", "x"} ->
           InsertText(value, selectionStart, selectionEnd, <<key>>)
      [] key = "Backspace" -> Backspace(value, selectionStart, selectionEnd)
      [] key = "v" -> InsertText(value, selectionStart, selectionEnd, clipboard)
      [] OTHER -> [ value |-> value, selectionStart |-> selectionStart,
                    selectionEnd |-> selectionEnd ]

(***************************************************************************)
(* State                                                                   *)
(***************************************************************************)

VARIABLES
    request,        \* the argument of the formatNumber call being run
    outputNumber,   \* formatNumber's locals ...
    currentStart,
    currentEnd,
    i,
    j,
    pc,             \* ... and its position: "loop", "done" ("idle": no call)
    inputState,     \* the component's state: value, selectionStart, selectionEnd
    reversionData,  \* reversionData.current: << >> for null, else <<snapshot>>
    inputEvent,     \* the change event due for the last key-down, if any:
                    \* <<the input element after the key's default action>>
    handled,        \* the last change event handled, if any: <<[target,
                    \* before (the state it found), keyed (it was due for a
                    \* key-down), original (the ref it found), outcome,
                    \* onChange (the value it notified, if any)]>>
    notifications,  \* the values onChange was called with, in order
    changes,        \* the number of change events handled
    snapshotReads,  \* the number of change events that have read the
                    \* snapshot now in reversionData.current
    mounted         \* the state the component was mounted with

formatVars == << request, outputNumber, currentStart, currentEnd, i, j, pc >>

widgetVars ==
    << inputState, reversionData, inputEvent, handled, notifications, changes,
       snapshotReads, mounted >>

vars == << formatVars, widgetVars >>

\* The locals of the running call, as LoopBody takes them.
Locals ==
    [ outputNumber |-> outputNumber, currentStart |-> currentStart,
      currentEnd |-> currentEnd, i |-> i, j |-> j ]

inputNumber == Coerce(request.value)

pattern == getPatternFromNumber(inputNumber)

(***************************************************************************)
(* The inputs of the formatter's specification                             *)
(***************************************************************************)

\* Longest tail of free characters appended to an input.
MaxTail == 2

\* Widest selection (selectionEnd - selectionStart) of a request.
MaxSel == 2

Chars == {"0", "1", "2", "3", "4", "5", "6", "7", "8", "9", " ", "x"}

TailChars == {"1", " ", "x"}

MainLeads == {"4", "3", "5", "1", " "}

Strings(S, n) == UNION { [1..k -> S] : k \in 0..n }

FillRaw ==
    << "4", "1", "2", "3", "4", "5", "6", "7", "8", "9", "0",
       "1", "2", "3", "4", "5", "6", "7", "8", "9", "0", "1" >>

FillGrouped ==
    << "4", "1", "2", " ", "3", "4", "5", "6", " ", "7", "8", "9", "0", " ",
       "1", "2", "3", "4", " ", "5", "6", "7" >>

FillAmex ==
    << "4", "1", "2", " ", "3", "4", "5", "6", "7", "8", " ",
       "9", "0", "1", "2", "3" >>

ShortFillers == { << >>, SubSeq(FillRaw, 1, 4), SubSeq(FillGrouped, 1, 4) }

LongFillers ==
    { SubSeq(FillRaw, 1, 14), SubSeq(FillRaw, 1, 18),
      SubSeq(FillGrouped, 1, 18), FillGrouped, FillAmex }

\* The strings handed to formatNumber: a leading character, digits with or
\* without grouping spaces, and a free tail.
Inputs ==
    { << >> }
    \cup { <<c>> \o f \o t :
             c \in Chars, f \in ShortFillers, t \in Strings(TailChars, MaxTail) }
    \cup { <<c>> \o f \o t :
             c \in MainLeads, f \in LongFillers, t \in Strings(TailChars, MaxTail) }

\* The cursors of a request on a value: none, a start alone, or a range.
Cursors(value) ==
    LET n == Len(Coerce(value))
    IN  { << << >>, << >> >> }
        \cup { << <<s>>, << >> >> : s \in 0..n }
        \cup UNION { { << <<s>>, <<e>> >> : e \in s..Min(n, s + MaxSel) } :
                     s \in 0..n }

\* The requests: every input, and undefined, with each of its cursors.
IsRequest(r) ==
    \E v \in Inputs \cup {Undefined} : \E c \in Cursors(v) :
        r = [ value |-> v, selectionStart |-> c[1], selectionEnd |-> c[2] ]

(***************************************************************************)
(* The formatter, one loop iteration per step                              *)
(***************************************************************************)

\* The component, mounted with no value and left alone.
WidgetIdle ==
    /\ inputState = FormatValue(<< >>)
    /\ reversionData = << >>
    /\ inputEvent = << >>
    /\ handled = << >>
    /\ notifications = << >>
    /\ changes = 0
    /\ snapshotReads = 0
    /\ mounted = inputState

FormatInit ==
    /\ WidgetIdle
    /\ IsRequest(request)
    /\ outputNumber = LoopStart(request).outputNumber
    /\ currentStart = LoopStart(request).currentStart
    /\ currentEnd = LoopStart(request).currentEnd
    /\ i = LoopStart(request).i
    /\ j = LoopStart(request).j
    /\ pc = "loop"

Iterate ==
    /\ pc = "loop"
    /\ LoopCondition(inputNumber, pattern, Locals)
    /\ LET next == LoopBody(inputNumber, pattern, Locals)
       IN  /\ outputNumber' = next.outputNumber
           /\ currentStart' = next.currentStart
           /\ currentEnd' = next.currentEnd
           /\ i' = next.i
           /\ j' = next.j
    /\ UNCHANGED << request, pc, widgetVars >>

Return ==
    /\ pc = "loop"
    /\ ~LoopCondition(inputNumber, pattern, Locals)
    /\ pc' = "done"
    /\ UNCHANGED << request, outputNumber, currentStart, currentEnd, i, j, widgetVars >>

FormatNext == Iterate \/ Return

SpecFormat == FormatInit /\ [][FormatNext]_vars

(***************************************************************************)
(* The component under key-down and change events                          *)
(***************************************************************************)

\* Change events handled in a run.
MaxChanges == 2

\* The value props the component is mounted with.
InitialValues ==
    { << >>,
      << "4", "4", "1", "2", " ", "3" >>,
      << " ", "4", "4", "1", "2", "3" >>,
      <<"3">> \o FillAmex,
      <<"5">> \o SubSeq(FillGrouped, 1, 18) }

\* The keys pressed.
Keys == {"1", "4", " ", "x", "Backspace", "v", "Shift"}

\* The text pasted by the paste shortcut.
Clipboard == { <<" ">> }

\* The text pasted or dropped with the mouse (no key is pressed).
MouseTexts == { <<"1">>, <<"x">> }

\* The selections the user makes in a field showing `value`: a caret or
\* one selected character at the start of the field, at the first separator
\* of the grouped patterns, and a caret at the end of the field.
Selections(value) ==
    { << s, e >> \in (0..Len(value)) \X (0..Len(value)) :
        /\ s \in {0, 4, Len(value)}
        /\ e \in {s, s + 1} }

\* No formatNumber call is being stepped.
FormatIdle ==
    /\ request = [ value |-> << >>, selectionStart |-> << >>,
                   selectionEnd |-> << >> ]
    /\ outputNumber = << >>
    /\ currentStart = 0
    /\ currentEnd = 0
    /\ i = 0
    /\ j = 0
    /\ pc = "idle"

\* useState(formatNumber({value})), with the prop's default ''.
Init ==
    /\ FormatIdle
    /\ \E value \in InitialValues : inputState = FormatValue(value)
    /\ reversionData = << >>
    /\ inputEvent = << >>
    /\ handled = << >>
    /\ notifications = << >>
    /\ changes = 0
    /\ snapshotReads = 0
    /\ mounted = inputState

\* onKeyDown: getReversionData(e) stores the snapshot; the key's default
\* action then edits the input element, and a change event is due if that
\* changed its value.
KeyDown(key, clipboard, selectionStart, selectionEnd) ==
    /\ inputEvent = << >>
    /\ changes < MaxChanges
    /\ LET target == [ value |-> inputState.value,
                       selectionStart |-> selectionStart,
                       selectionEnd |-> selectionEnd ]
           edited == DefaultAction(inputState.value, selectionStart,
                                   selectionEnd, key, clipboard)
       IN  /\ reversionData' = << getReversionData(target, key) >>
           /\ inputEvent' = IF edited.value # inputState.value
                            THEN <<edited>>
                            ELSE << >>
    /\ snapshotReads' = 0
    /\ UNCHANGED << inputState, handled, notifications, changes, mounted,
                    formatVars >>

\* manageChange(e) run on the input element `target`.
Handle(target, keyed) ==
    LET result == manageChange(target, inputState, reversionData)
    IN  /\ inputState' = result.inputState
        /\ notifications' = notifications \o result.onChange
        /\ handled' = << [ target   |-> target,
                           before   |-> inputState,
                           keyed    |-> keyed,
                           original |-> reversionData,
                           outcome  |-> result.outcome,
                           onChange |-> result.onChange ] >>
        /\ changes' = changes + 1
        /\ inputEvent' = << >>
        /\ snapshotReads' = IF reversionData = << >>
                            THEN snapshotReads
                            ELSE snapshotReads + 1
        /\ UNCHANGED << reversionData, mounted, formatVars >>

\* onChange for the change event due after a key-down.
Change ==
    /\ inputEvent # << >>
    /\ Handle(inputEvent[1], TRUE)

\* onChange for an edit made without a key: text pasted or dropped with the
\* mouse over the selection (selectionStart, selectionEnd).
MouseChange(text, selectionStart, selectionEnd) ==
    /\ inputEvent = << >>
    /\ changes < MaxChanges
    /\ LET edited == InsertText(inputState.value, selectionStart,
                                selectionEnd, text)
       IN  /\ edited.value # inputState.value
           /\ Handle(edited, FALSE)

Next ==
    \/ \E key \in Keys, clipboard \in Clipboard,
          sel \in Selections(inputState.value) :
            KeyDown(key, clipboard, sel[1], sel[2])
    \/ Change
    \/ \E text \in MouseTexts, sel \in Selections(inputState.value) :
            MouseChange(text, sel[1], sel[2])

Spec == Init /\ [][Next]_vars

(***************************************************************************)
(* Vocabulary of the properties                                            *)
(***************************************************************************)

DigitCharacters == {"0", "1", "2", "3", "4", "5", "6", "7", "8", "9"}

OnlyDigitsAndSpaces(s) ==
    \A k \in 1..Len(s) : s[k] \in DigitCharacters \cup {" "}

IsDigitCharacter(c) == c \in DigitCharacters

IsPlaceholder(c) == c = "#"

\* The digits of a string, in order.
DigitsOf(s) == SelectSeq(s, IsDigitCharacter)

\* The number of digit placeholders of a pattern.
SlotsOf(p) == Len(SelectSeq(p, IsPlaceholder))

Take(s, n) == SubSeq(s, 1, Min(n, Len(s)))

Placeholders(n) == [ k \in 1..n |-> "#" ]

\* The patterns as the documentation spells them.
Doc16 ==
    Placeholders(4) \o <<" ">> \o Placeholders(4) \o <<" ">>
    \o Placeholders(4) \o <<" ">> \o Placeholders(4)

DocVisa == Doc16 \o <<" ">> \o Placeholders(3)

DocAmex ==
    Placeholders(4) \o <<" ">> \o Placeholders(6) \o <<" ">> \o Placeholders(5)

DocFallback == Placeholders(19)

\* The formatNumber call has returned; outputNumber, currentStart and
\* currentEnd are its result.
Returned == pc = "done"

\* The request names a cursor range within the input.
CursorGiven ==
    /\ request.selectionStart # << >>
    /\ request.selectionEnd # << >>
    /\ 0 <= request.selectionStart[1]
    /\ request.selectionStart[1] <= request.selectionEnd[1]
    /\ request.selectionEnd[1] <= Len(inputNumber)

(***************************************************************************)
(* Properties of getPatternFromNumber and formatNumber (SpecFormat)        *)
(***************************************************************************)

\* C1: the pattern selected for a value depends on the first character of
\* the value coerced to a string alone: 2, 5 and 6 give four groups of four,
\* 4 gives 4/4/4/4/3, 3 gives 4/6/5, and every other first character, the
\* empty string and undefined give 19 placeholders with no separator.
C1_PatternByFirstCharacter ==
    getPatternFromNumber(request.value) =
        IF Len(inputNumber) = 0 THEN DocFallback
        ELSE CASE inputNumber[1] \in {"2", "5", "6"} -> Doc16
               [] inputNumber[1] = "4" -> DocVisa
               [] inputNumber[1] = "3" -> DocAmex
               [] OTHER -> DocFallback

C1_Witness ==
    /\ Returned
    /\ Len(inputNumber) > 1
    /\ inputNumber[1] = "3"
    /\ inputNumber[2] = "4"
    /\ getPatternFromNumber(request.value) = DocAmex

\* C2: digit preservation: for an input of digits and spaces, the digits of
\* the returned value are the digits of the input, in order, cut to the
\* number of placeholders of the pattern selected for the input.
C2_DigitPreservation ==
    (Returned /\ OnlyDigitsAndSpaces(inputNumber)) =>
        DigitsOf(outputNumber) = Take(DigitsOf(inputNumber), SlotsOf(pattern))

C2_Witness ==
    /\ Returned
    /\ OnlyDigitsAndSpaces(inputNumber)
    /\ Len(DigitsOf(inputNumber)) > SlotsOf(pattern)
    /\ Len(DigitsOf(outputNumber)) = SlotsOf(pattern)
    /\ Len(outputNumber) > SlotsOf(pattern)

\* C3: idempotence: for an input of digits and spaces (one starting with a
\* space included), formatting the returned value again returns it unchanged.
C3_Idempotence ==
    (Returned /\ OnlyDigitsAndSpaces(inputNumber)) =>
        FormatValue(outputNumber).value = outputNumber

\* C4: the returned value holds digits and spaces only, and it holds a space
\* at position k exactly when the pattern selected by the first digit of the
\* returned value has a separator at k.
C4_GroupedByFirstDigitOfOutput ==
    Returned =>
        /\ OnlyDigitsAndSpaces(outputNumber)
        /\ \A k \in 0..(Len(outputNumber) - 1) :
             (CharAt(outputNumber, k) = " ")
               <=> (CharAt(getPatternFromNumber(outputNumber), k) = " ")

C6_CursorWithinOutput ==
    (Returned /\ OnlyDigitsAndSpaces(inputNumber) /\ CursorGiven) =>
        /\ 0 <= currentStart
        /\ currentStart <= currentEnd
        /\ currentEnd <= Len(outputNumber)

\* C7: cursor monotonicity: if selectionStart <= selectionEnd on input, then
\* currentStart <= currentEnd before the loop, after each of its iterations
\* and in the result.
C7_CursorMonotonicity ==
    (pc \in {"loop", "done"}
       /\ ResolvedStart(request) <= ResolvedEnd(request)) =>
        currentStart <= currentEnd

C7_Witness ==
    /\ pc = "loop"
    /\ i > 0
    /\ ResolvedStart(request) < ResolvedEnd(request)
    /\ currentStart > ResolvedStart(request)
    /\ currentEnd > ResolvedEnd(request)
    /\ currentStart < currentEnd

(***************************************************************************)
(* Properties of the component (Spec)                                      *)
(***************************************************************************)

\* The last change event handled was the one due for a key-down; Snapshot
\* is what that key-down captured.
KeyedChange == handled # << >> /\ handled[1].keyed

Snapshot == handled[1].original[1]

PostEdit == handled[1].target

\* The field shows the value and the cursor range of the snapshot.
RevertedToSnapshot ==
    /\ handled[1].outcome = "reverted"
    /\ inputState = [ value          |-> Snapshot.value,
                      selectionStart |-> Snapshot.selectionStart,
                      selectionEnd   |-> Snapshot.selectionEnd ]
    /\ inputState.value = handled[1].before.value

\* The text selected at the key-down.
SelectedAtKeyDown ==
    Substring(Snapshot.value, Snapshot.selectionStart, Snapshot.selectionEnd)

\* C8: a change event due for a key-down whose post-edit value holds a
\* character that is neither a digit nor a space is rejected whatever was
\* selected: the field shows the value and cursor captured at the key-down,
\* the post-edit value is not formatted, and onChange is not called.
C8_BadCharacterReverts ==
    (KeyedChange /\ ~OnlyDigitsAndSpaces(PostEdit.value)) =>
        /\ RevertedToSnapshot
        /\ handled[1].onChange = << >>

C8_Witness ==
    /\ KeyedChange
    /\ ~OnlyDigitsAndSpaces(PostEdit.value)
    /\ DigitsOf(SelectedAtKeyDown) # << >>
    /\ Len(Snapshot.value) > 4
    /\ RevertedToSnapshot
    /\ notifications = << >>

\* C9: if the value shown at key-down is full (as long as the pattern
\* selected for it) and no digit is selected, a change to a value of digits
\* and spaces that is not shorter is rejected and the field stays as
\* captured at the key-down, also when the edit changes the first character.
C9_FullFieldTakesNoInput ==
    (/\ KeyedChange
     /\ Len(Snapshot.value) = Len(getPatternFromNumber(Snapshot.value))
     /\ DigitsOf(SelectedAtKeyDown) = << >>
     /\ OnlyDigitsAndSpaces(PostEdit.value)
     /\ Len(PostEdit.value) >= Len(Snapshot.value)) =>
        RevertedToSnapshot

\* Rule 2 of the edit guard rejects the last change.
FullFieldRuleApplies ==
    /\ Len(Snapshot.value) = Len(getPatternFromNumber(PostEdit.value))
    /\ Len(PostEdit.value) >= Len(getPatternFromNumber(PostEdit.value))
    /\ DigitsOf(SelectedAtKeyDown) = << >>

\* C10: when the space key was pressed and rules 1 and 2 do not reject, the
\* edit is rejected if the pattern has no separator at the selection start of
\* the key-down, and else accepted: the field shows the formatter's result
\* for the post-edit value, with a space at that offset. A space typed into
\* an empty field or at offset 0 is rejected.
C10_SpaceKeyRule ==
    (KeyedChange /\ Snapshot.isAddingSpace) =>
        /\ (OnlyDigitsAndSpaces(PostEdit.value) /\ ~FullFieldRuleApplies) =>
             IF CharAt(getPatternFromNumber(Snapshot.value),
                       Snapshot.selectionStart) # " "
             THEN RevertedToSnapshot
             ELSE /\ handled[1].outcome = "accepted"
                  /\ inputState =
                       formatNumber([ value |-> PostEdit.value,
                                      selectionStart |-> <<PostEdit.selectionStart>>,
                                      selectionEnd |-> <<PostEdit.selectionEnd>> ])
                  /\ CharAt(inputState.value, Snapshot.selectionStart) = " "
        /\ (Snapshot.selectionStart = 0 \/ Snapshot.value = << >>) =>
             RevertedToSnapshot

C10_Witness ==
    /\ KeyedChange
    /\ Snapshot.isAddingSpace
    /\ Snapshot.selectionStart = 4
    /\ handled[1].outcome = "accepted"
    /\ CharAt(inputState.value, 4) = " "
    /\ inputState.value # Snapshot.value


\* The formatter's result for the post-edit value and cursor of the last
\* change event.
FormattedPostEdit ==
    formatNumber([ value          |-> PostEdit.value,
                   selectionStart |-> <<PostEdit.selectionStart>>,
                   selectionEnd   |-> <<PostEdit.selectionEnd>> ])

\* C11: a change event calls onChange at most once: once if the edit is
\* accepted and the formatted value differs from the value shown before the
\* edit, and not at all if the edit is rejected or the formatted value equals
\* the value shown before; the call carries the formatted value, not the raw
\* post-edit value.
C11_ChangeNotification ==
    /\ Len(notifications) <= changes
    /\ handled # << >> =>
         /\ Len(handled[1].onChange) <= 1
         /\ (handled[1].onChange # << >>)
              <=> (/\ handled[1].outcome = "accepted"
                   /\ inputState.value # handled[1].before.value)
         /\ handled[1].onChange # << >> =>
              /\ handled[1].onChange[1] = FormattedPostEdit.value
              /\ notifications # << >>
              /\ notifications[Len(notifications)] = handled[1].onChange[1]

C11_Witness ==
    /\ handled # << >>
    /\ handled[1].outcome = "accepted"
    /\ handled[1].onChange # << >>
    /\ handled[1].onChange[1] # PostEdit.value
    /\ handled[1].onChange[1] = inputState.value
    /\ Len(notifications) = 1


\* The last change event was due for a Backspace-like deletion of the one
\* digit that follows a separator at the end of the displayed value, with
\* the caret at the end.
DeletedDigitAfterSeparator ==
    /\ KeyedChange
    /\ LET v == Snapshot.value
           n == Len(v)
       IN  /\ n >= 2
           /\ v = handled[1].before.value
           /\ IsDigitCharacter(v[n])
           /\ v[n - 1] = " "
           /\ Snapshot.selectionStart = n
           /\ Snapshot.selectionEnd = n
           /\ PostEdit.value = SubSeq(v, 1, n - 1)

\* C12: deleting a number after a space deletes the space as well: when the
\* displayed value ends with a separator and one digit and that digit is
\* deleted with the caret at the end, the value displayed after the change
\* does not end with the separator.
C12_DeleteTakesSeparator ==
    DeletedDigitAfterSeparator =>
        \/ inputState.value = << >>
        \/ inputState.value[Len(inputState.value)] # " "

\* C13: the edit decision is total: every change event ends in a revert or
\* in an accept, and one that arrives when no key-down has been handled
\* raises no error and sets the field to the formatter's result for the
\* post-edit value.
C13_TotalDecision ==
    handled # << >> =>
        /\ handled[1].outcome \in {"reverted", "accepted"}
        /\ handled[1].original = << >> =>
             /\ handled[1].outcome = "accepted"
             /\ inputState = FormattedPostEdit

(***************************************************************************)
(* Properties of the cursor and of the loop of formatNumber (SpecFormat)   *)
(***************************************************************************)

\* The request names no cursor and its value is a string of digits that the
\* pattern has room for.
DigitsWithDefaultCursor ==
    /\ request.value # Undefined
    /\ request.selectionStart = << >>
    /\ request.selectionEnd = << >>
    /\ \A k \in 1..Len(inputNumber) : IsDigitCharacter(inputNumber[k])
    /\ Len(inputNumber) <= SlotsOf(pattern)

\* C14: default cursor: for a string of digits no longer than the number of
\* placeholders of its pattern, formatNumber called with no cursor returns a
\* caret at the end of the returned value.
C14_DefaultCursorAtEnd ==
    (Returned /\ DigitsWithDefaultCursor) =>
        /\ currentStart = Len(outputNumber)
        /\ currentEnd = Len(outputNumber)

C14_Witness ==
    /\ Returned
    /\ DigitsWithDefaultCursor
    /\ Len(inputNumber) = 16
    /\ inputNumber[1] = "4"
    /\ Len(outputNumber) = 19
    /\ currentStart = 19
    /\ currentEnd = 19

\* The number of digits of s before the offset c.
DigitsBefore(s, c) == Len(DigitsOf(Take(s, c)))

\* C15: the cursor stays with the same digits: for an input of digits and
\* spaces that the pattern has room for and a cursor range within it, as many
\* digits lie before each returned offset in the returned value as lie before
\* the offset given in the input.
C15_CursorStaysWithDigits ==
    (Returned /\ OnlyDigitsAndSpaces(inputNumber) /\ CursorGiven
       /\ Len(DigitsOf(inputNumber)) <= SlotsOf(pattern)) =>
        /\ DigitsBefore(outputNumber, currentStart)
             = DigitsBefore(inputNumber, request.selectionStart[1])
        /\ DigitsBefore(outputNumber, currentEnd)
             = DigitsBefore(inputNumber, request.selectionEnd[1])

\* The step about to run is an iteration that writes a separator and leaves
\* the digit at index i of the input unconsumed.
InsertsSeparator ==
    /\ pc = "loop"
    /\ i < Len(inputNumber)
    /\ j < Len(pattern)
    /\ pattern[j + 1] = " "
    /\ IsDigitCharacter(inputNumber[i + 1])

\* C16 as stated: a separator written while the digit at i is left
\* unconsumed moves every cursor offset with i <= offset, equality included,
\* up by one; every other step leaves both offsets unchanged.
C16_ShiftAtOrBefore ==
    [][ /\ currentStart' = IF InsertsSeparator /\ i <= currentStart
                           THEN currentStart + 1
                           ELSE currentStart
        /\ currentEnd' = IF InsertsSeparator /\ i <= currentEnd
                         THEN currentEnd + 1
                         ELSE currentEnd ]_vars

\* C16: cursor shift step: a separator written while the digit at i is left
\* unconsumed moves every cursor offset greater than i up by one and leaves
\* an offset equal to i or less than i where it is; every other step leaves
\* both offsets unchanged.
C16_ShiftStrictlyBefore ==
    [][ /\ currentStart' = IF InsertsSeparator /\ i < currentStart
                           THEN currentStart + 1
                           ELSE currentStart
        /\ currentEnd' = IF InsertsSeparator /\ i < currentEnd
                         THEN currentEnd + 1
                         ELSE currentEnd ]_vars

\* The first separator has just been written before the digit at index 4;
\* the start of the selection, at 4, stayed and its end, beyond 4, moved.
C16_Witness ==
    /\ pc = "loop"
    /\ i = 4
    /\ j = 5
    /\ Len(outputNumber) = 5
    /\ outputNumber[5] = " "
    /\ Len(inputNumber) > 4
    /\ IsDigitCharacter(inputNumber[5])
    /\ request.selectionStart = <<4>>
    /\ currentStart = 4
    /\ request.selectionEnd # << >>
    /\ request.selectionEnd[1] > 4
    /\ currentEnd = request.selectionEnd[1] + 1

(***************************************************************************)
(* The snapshot and the observer (Spec)                                    *)
(***************************************************************************)

\* C17: snapshot lifecycle: the snapshot written by a key-down is used by at
\* most one change event: no second change event is decided with, or
\* reverted to, what one key-down captured.
C17_SnapshotUsedOnce == snapshotReads <= 1

(***************************************************************************)
(* Termination of the loop (SpecFormat)                                    *)
(***************************************************************************)

\* C18: the formatting loop terminates: every iteration moves i or j (or
\* both) up by one and neither down, neither index passes the end of its
\* string, the loop stops as soon as the input or the pattern is exhausted
\* and not before; so it runs at most length(input) + length(pattern) times.
C18_LoopTerminates ==
    [][ /\ pc' = "loop" =>
             /\ i' \in {i, i + 1}
             /\ j' \in {j, j + 1}
             /\ i' + j' > i + j
        /\ i' <= Len(inputNumber)
        /\ j' <= Len(pattern)
        /\ pc' = "done" =>
             /\ i' = i
             /\ j' = j
             /\ (i = Len(inputNumber) \/ j = Len(pattern))
        /\ (i = Len(inputNumber) \/ j = Len(pattern)) => pc' = "done" ]_vars

C18_Witness ==
    /\ Returned
    /\ j = Len(pattern)
    /\ i < Len(inputNumber)
    /\ i < j
    /\ i + j > Len(inputNumber) + SlotsOf(pattern)

(***************************************************************************)
(* Invariants of the component (Spec)                                      *)
(***************************************************************************)

\* C19: the displayed value is a fixed point of the formatter in every
\* state reachable from any initial value by key-down and change events.
C19_DisplayedIsCanonical ==
    FormatValue(inputState.value).value = inputState.value

\* C20: the observer stays in sync: the displayed value is the value of the
\* most recent onChange call, or the formatted initial value if there was
\* none, and a revert shows what was displayed before the rejected edit.
C20_ObserverInSync ==
    /\ inputState.value = IF notifications # << >>
                          THEN notifications[Len(notifications)]
                          ELSE mounted.value
    /\ (handled # << >> /\ handled[1].outcome = "reverted") =>
         inputState.value = handled[1].before.value

=============================================================================
